---- MODULE Spec2Model ----
(***************************************************************************)
(* Model of app.py: the game-day rating service.  One SQLite table         *)
(* `ratings`, the Flask request handlers over it, and the per-browser      *)
(* cookies (device_id, the signed session holding is_admin).               *)
(*                                                                         *)
(* Text is a sequence of one-character strings.  A JSON value is a record  *)
(* [t, v, s]: its type tag, its number (a float is held in tenths) and its *)
(* text.  A write handler is two steps, as in the code: the statement      *)
(* (db.execute, which opens the transaction and takes SQLite's write lock) *)
(* and db.commit().  Only one write transaction is open at a time: a       *)
(* request that needs the lock while another holds it waits, which is the  *)
(* guard txn = NoTxn; readers see the committed table.  What a request     *)
(* does before its statement touches only its own locals, so it is one     *)
(* step with the statement.  resp is the answer of the last request that   *)
(* was answered.  session[s] is is_admin in the session cookie of browser  *)
(* session s, as a browser that keeps the cookie it was last sent holds it.*)
(***************************************************************************)
EXTENDS Integers, Sequences, FiniteSets, TLC

VARIABLES ratings, seq, now, txn, session, resp

vars == <<ratings, seq, now, txn, session, resp>>

(* ------------------------------ bounds --------------------------------- *)

\* rows ever inserted (the cap on sqlite_sequence)
MaxId == 2
\* seconds the clock may advance
MaxClock == 1
\* browsers that vote for one entrant in the tables the aggregates are
\* computed over
MaxDevices == 3

(* --------------------------- configuration ----------------------------- *)

N_ENTRANTS == 14

JUDGE_MAX == 50

ONE_WORD_MAX == 20

\* the default of ADMIN_PASSWORD, shortened to its first two characters
ADMIN_PASSWORD == <<"M", "A">>

\* the participants; Python indexes them from 0
ENTRANT_NAMES ==
    << <<"J", "a", "v", "i", "e", "r">>,
       <<"L", "i", "n", "d", "s", "a", "y">>,
       <<"Y", "e", "s", "e", "n", "i", "a">>,
       <<"B", "r", "y", "a", "n">>,
       <<"V", "i", "v", "i", "a", "n", "a">>,
       <<"B", "e", "r", "n", "i", "e">>,
       <<"R", "o", "g", "e", "l", "i", "o">>,
       <<"D", "a", "n", "i", "e", "l", "l", "a">>,
       <<"C", "o", "l", "l", "e", "e", "n">>,
       <<"J", "u", "s", "t", "i", "n">>,
       <<"P", "a", "i", "g", "e">>,
       <<"N", "i", "c">>,
       <<"M", "a", "r", "t", "h", "a">>,
       <<"S", "t", "e", "v", "e">> >>

ENTRANTS(i) == ENTRANT_NAMES[i + 1]

(* ------------------------------- text ---------------------------------- *)

NULL == <<"NULL">>

LF == "\n"

BACKSLASH == "\\"

QUOTE == "\""

Whitespace == {" ", "\t", LF}

UPPER == <<"A","B","C","D","E","F","G","H","I","J","K","L","M",
           "N","O","P","Q","R","S","T","U","V","W","X","Y","Z">>

LOWERCASE == <<"a","b","c","d","e","f","g","h","i","j","k","l","m",
               "n","o","p","q","r","s","t","u","v","w","x","y","z">>

DIGITS == <<"0","1","2","3","4","5","6","7","8","9">>

\* the characters of the model in code-point order (the order of SQLite's
\* BINARY collation); E_ACUTE and e_acute stand for U+00C9 and U+00E9
CODEPOINTS == <<"\t", LF, " ", QUOTE, ",", "-", ".">> \o DIGITS \o <<":">> \o UPPER
              \o <<BACKSLASH>> \o LOWERCASE \o <<"E_ACUTE", "e_acute">>

Code(c) == CHOOSE i \in 1..Len(CODEPOINTS) : CODEPOINTS[i] = c

Take(s, n) == SubSeq(s, 1, IF Len(s) < n THEN Len(s) ELSE n)

RECURSIVE LStrip(_)
LStrip(s) == IF s # <<>> /\ Head(s) \in Whitespace THEN LStrip(Tail(s)) ELSE s

RECURSIVE RStrip(_)
RStrip(s) == IF s # <<>> /\ s[Len(s)] \in Whitespace
             THEN RStrip(SubSeq(s, 1, Len(s) - 1)) ELSE s

\* str.strip()
Strip(s) == RStrip(LStrip(s))

RECURSIVE FirstToken(_)
\* s.split()[0] of a text that starts with a non-blank character
FirstToken(s) == IF s = <<>> \/ Head(s) \in Whitespace THEN <<>>
                 ELSE <<Head(s)>> \o FirstToken(Tail(s))

\* SQLite's built-in lower(): the 26 ASCII letters only
LowerChar(c) == IF \E i \in 1..26 : UPPER[i] = c
                THEN LOWERCASE[CHOOSE i \in 1..26 : UPPER[i] = c] ELSE c

SqlLower(s) == [i \in 1..Len(s) |-> LowerChar(s[i])]

RECURSIVE SqlLTrim(_)
SqlLTrim(s) == IF s # <<>> /\ Head(s) = " " THEN SqlLTrim(Tail(s)) ELSE s

RECURSIVE SqlRTrim(_)
SqlRTrim(s) == IF s # <<>> /\ s[Len(s)] = " "
               THEN SqlRTrim(SubSeq(s, 1, Len(s) - 1)) ELSE s

\* SQLite's trim(X): spaces only
SqlTrim(s) == SqlRTrim(SqlLTrim(s))

RECURSIVE TextLess(_, _)
\* a < b under the BINARY collation
TextLess(a, b) == IF b = <<>> THEN FALSE
                  ELSE IF a = <<>> THEN TRUE
                  ELSE IF Head(a) # Head(b) THEN Code(Head(a)) < Code(Head(b))
                  ELSE TextLess(Tail(a), Tail(b))

RECURSIVE StrNat(_)
StrNat(n) == IF n < 10 THEN <<DIGITS[n + 1]>>
             ELSE StrNat(n \div 10) \o <<DIGITS[(n % 10) + 1]>>

\* str() of an integer
Str(n) == IF n < 0 THEN <<"-">> \o StrNat(-n) ELSE StrNat(n)

(* ---------------------------- JSON values ------------------------------ *)

JInt(n) == [t |-> "int", v |-> n, s |-> <<>>]

\* a float, given in tenths: JFloat(37) is 3.7
JFloat(n) == [t |-> "float", v |-> n, s |-> <<>>]

JBool(b) == [t |-> "bool", v |-> IF b THEN 1 ELSE 0, s |-> <<>>]

JStr(s) == [t |-> "str", v |-> 0, s |-> s]

\* a key the payload does not have: data.get() gives None
JNull == [t |-> "null", v |-> 0, s |-> <<>>]

Raised == [ok |-> FALSE, v |-> 0, s |-> <<>>]

IsDigits(s) == s # <<>> /\ \A i \in 1..Len(s) : \E d \in 1..10 : DIGITS[d] = s[i]

RECURSIVE DigitsValue(_)
DigitsValue(s) == IF s = <<>> THEN 0
                  ELSE 10 * DigitsValue(SubSeq(s, 1, Len(s) - 1))
                       + (Code(s[Len(s)]) - Code("0"))

\* int() of a text: blanks stripped, an optional sign, then digits only
ParseInt(s) == LET b == Strip(s)
                   neg == b # <<>> /\ Head(b) = "-"
                   d == IF neg THEN Tail(b) ELSE b
               IN IF IsDigits(d)
                  THEN [ok |-> TRUE, v |-> IF neg THEN -DigitsValue(d) ELSE DigitsValue(d), s |-> <<>>]
                  ELSE Raised

\* int(x): an int as it is, a bool as 0 or 1, a float truncated towards
\* zero, a text parsed; None raises
PyInt(x) == CASE x.t = "int" -> [ok |-> TRUE, v |-> x.v, s |-> <<>>]
              [] x.t = "bool" -> [ok |-> TRUE, v |-> x.v, s |-> <<>>]
              [] x.t = "float" -> [ok |-> TRUE, s |-> <<>>,
                                   v |-> IF x.v >= 0 THEN x.v \div 10 ELSE -((-x.v) \div 10)]
              [] x.t = "str" -> ParseInt(x.s)
              [] OTHER -> Raised

\* Python truth of a JSON value
Truthy(x) == CASE x.t = "str" -> x.s # <<>>
               [] x.t = "null" -> FALSE
               [] OTHER -> x.v # 0

\* (x or "").strip()[:50] or None
NormJudge(x) == IF ~Truthy(x) THEN [ok |-> TRUE, v |-> 0, s |-> NULL]
                ELSE IF x.t # "str" THEN Raised
                ELSE LET j == Take(Strip(x.s), JUDGE_MAX)
                     IN [ok |-> TRUE, v |-> 0, s |-> IF j = <<>> THEN NULL ELSE j]

sanitize_one_word(x) ==
    IF ~Truthy(x) THEN [ok |-> TRUE, v |-> 0, s |-> NULL]
    ELSE IF x.t # "str" THEN Raised
    ELSE LET s == Strip(x.s)
         IN [ok |-> TRUE, v |-> 0,
             s |-> IF s = <<>> THEN NULL ELSE Take(FirstToken(s), ONE_WORD_MAX)]

\* request.cookies.get("device_id") or "anon"
device_id_from_request(cookie) == IF cookie = NULL \/ cookie = <<>>
                                  THEN <<"a", "n", "o", "n">> ELSE cookie

(* ----------------------------- the table ------------------------------- *)

\* a row of `ratings`
Row(id, e, t, p, z, j, d, w, at) ==
    [id |-> id, entrant_index |-> e, taste |-> t, presentation |-> p, easy |-> z,
     judge |-> j, device_id |-> d, one_word |-> w, created_at |-> at]

\* the rows the UNIQUE (entrant_index, device_id) index finds
Conflicting(table, e, d) == {r \in table : r.entrant_index = e /\ r.device_id = d}

\* the CHECK constraints of the three score columns
ChecksHold(t, p, z) == t \in 1..5 /\ p \in 1..5 /\ z \in 1..5

\* a plain INSERT into a table without the UNIQUE index
Upsert_AlwaysInserts(table, id, e, t, p, z, j, d, w, at) ==
    table \cup {Row(id, e, t, p, z, j, d, w, at)}

\* INSERT OR REPLACE: the conflicting row is deleted and a new one inserted
Upsert_Replaces(table, id, e, t, p, z, j, d, w, at) ==
    (table \ Conflicting(table, e, d)) \cup {Row(id, e, t, p, z, j, d, w, at)}

\* INSERT ... ON CONFLICT(entrant_index, device_id) DO UPDATE SET ...: the
\* table after the statement.  A new row takes the next AUTOINCREMENT id and
\* CURRENT_TIMESTAMP; a conflicting row keeps its id, device_id and created_at.
Upsert(table, id, e, t, p, z, j, d, w, at) ==
    IF Conflicting(table, e, d) = {}
    THEN table \cup {Row(id, e, t, p, z, j, d, w, at)}
    ELSE {IF r \in Conflicting(table, e, d)
          THEN [r EXCEPT !.taste = t, !.presentation = p, !.easy = z,
                         !.judge = j, !.one_word = w]
          ELSE r : r \in table}

\* sqlite_sequence after the statement: an insert uses the next id; on the
\* DO UPDATE path the engine has generated a rowid before it finds the
\* conflict, and may or may not record it
SeqAfter(table, sq, e, d) ==
    IF Conflicting(table, e, d) = {} THEN {sq + 1} ELSE {sq, sq + 1}

NoTxn == [op |-> "none", ratings |-> {}, seq |-> 0, who |-> NULL, req |-> NULL]

NoResp == [op |-> "none", status |-> 0, who |-> NULL, req |-> NULL, out |-> NULL]

Sessions == {"s1", "s2"}

Init == /\ ratings = {}
        /\ seq = 0
        /\ now = 0
        /\ txn = NoTxn
        /\ session = [s \in Sessions |-> FALSE]
        /\ resp = NoResp

(* ------------------------------ /api/rate ------------------------------ *)

\* the range check of the entrant written with <= for <
ParseRate_OffByOne(data) ==
    LET e == PyInt(data.entrant_index)
        t == PyInt(data.taste)
        p == PyInt(data.presentation)
        z == PyInt(data.easy)
        j == NormJudge(data.judge)
        w == sanitize_one_word(data.one_word)
    IN IF ~(e.ok /\ t.ok /\ p.ok /\ z.ok /\ j.ok /\ w.ok)
       THEN [status |-> 400, error |-> "Invalid payload"]
       ELSE IF ~(0 <= e.v /\ e.v <= N_ENTRANTS)
       THEN [status |-> 400, error |-> "Invalid entrant"]
       ELSE IF \E v \in {t.v, p.v, z.v} : v < 1 \/ v > 5
       THEN [status |-> 400, error |-> "Scores must be 1 to 5"]
       ELSE [status |-> 200, error |-> "", entrant_index |-> e.v, taste |-> t.v,
             presentation |-> p.v, easy |-> z.v, judge |-> j.s, one_word |-> w.s]

\* the try block and the two range checks: the parsed values, or the error
ParseRate(data) ==
    LET e == PyInt(data.entrant_index)
        t == PyInt(data.taste)
        p == PyInt(data.presentation)
        z == PyInt(data.easy)
        j == NormJudge(data.judge)
        w == sanitize_one_word(data.one_word)
    IN IF ~(e.ok /\ t.ok /\ p.ok /\ z.ok /\ j.ok /\ w.ok)
       THEN [status |-> 400, error |-> "Invalid payload"]
       ELSE IF ~(0 <= e.v /\ e.v < N_ENTRANTS)
       THEN [status |-> 400, error |-> "Invalid entrant"]
       ELSE IF \E v \in {t.v, p.v, z.v} : v < 1 \/ v > 5
       THEN [status |-> 400, error |-> "Scores must be 1 to 5"]
       ELSE [status |-> 200, error |-> "", entrant_index |-> e.v, taste |-> t.v,
             presentation |-> p.v, easy |-> z.v, judge |-> j.s, one_word |-> w.s]

\* POST /api/rate up to db.execute: a rejected payload is answered at once;
\* an accepted one runs the upsert in a write transaction, which waits for
\* the write lock
api_rate(cookie, data) ==
    LET a == ParseRate(data)
        d == device_id_from_request(cookie)
    IN IF a.status # 200
       THEN /\ resp' = [op |-> "rate", status |-> a.status, who |-> d, req |-> data,
                        out |-> a.error]
            /\ UNCHANGED <<ratings, seq, now, txn, session>>
       ELSE /\ txn = NoTxn
            /\ ChecksHold(a.taste, a.presentation, a.easy)
            /\ \E sq \in SeqAfter(ratings, seq, a.entrant_index, d) :
                  txn' = [op |-> "rate", seq |-> sq, who |-> d, req |-> data,
                             ratings |-> Upsert(ratings, seq + 1, a.entrant_index,
                                                a.taste, a.presentation, a.easy,
                                                a.judge, d, a.one_word, now)]
            /\ UNCHANGED <<ratings, seq, now, session, resp>>

\* db.commit() and the handler's answer
commit ==
    /\ txn.op # "none"
    /\ ratings' = txn.ratings
    /\ seq' = txn.seq
    /\ txn' = NoTxn
    /\ resp' = [op |-> txn.op, status |-> IF txn.op = "rate" THEN 200 ELSE 302,
                who |-> txn.who, req |-> txn.req, out |-> ""]
    /\ UNCHANGED <<now, session>>

\* CURRENT_TIMESTAMP moves on by a second
Tick == /\ now < MaxClock
        /\ now' = now + 1
        /\ UNCHANGED <<ratings, seq, txn, session, resp>>

(* --------------------------- /api/my-rating ---------------------------- *)

\* a lookup that answers 400 for an index outside the list
api_my_rating_Rejecting(cookie, arg) ==
    LET e == ParseInt(IF arg = NULL THEN <<"-", "1">> ELSE arg)
        d == device_id_from_request(cookie)
        found == {[taste |-> r.taste, presentation |-> r.presentation, easy |-> r.easy,
                   judge |-> r.judge, one_word |-> r.one_word] :
                  r \in Conflicting(ratings, e.v, d)}
    IN /\ IF ~e.ok \/ ~(0 <= e.v /\ e.v < N_ENTRANTS)
          THEN resp' = [op |-> "my_rating", status |-> 400, who |-> d, req |-> arg,
                        out |-> {"Bad entrant index"}]
          ELSE \E o \in (IF found = {} THEN {{}} ELSE {{r} : r \in found}) :
                 resp' = [op |-> "my_rating", status |-> 200, who |-> d, req |-> arg,
                          out |-> o]
       /\ UNCHANGED <<ratings, seq, now, txn, session>>

\* the query argument, "-1" when the request has none
api_my_rating(cookie, arg) ==
    LET e == ParseInt(IF arg = NULL THEN <<"-", "1">> ELSE arg)
        d == device_id_from_request(cookie)
        found == {[taste |-> r.taste, presentation |-> r.presentation, easy |-> r.easy,
                   judge |-> r.judge, one_word |-> r.one_word] :
                  r \in Conflicting(ratings, e.v, d)}
    IN /\ IF ~e.ok
          THEN resp' = [op |-> "my_rating", status |-> 400, who |-> d, req |-> arg,
                        out |-> {"Bad entrant index"}]
          ELSE IF ~(0 <= e.v /\ e.v < N_ENTRANTS)
          THEN resp' = [op |-> "my_rating", status |-> 200, who |-> d, req |-> arg,
                        out |-> {}]
          ELSE \E o \in (IF found = {} THEN {{}} ELSE {{r} : r \in found}) :
                 resp' = [op |-> "my_rating", status |-> 200, who |-> d, req |-> arg,
                          out |-> o]
       /\ UNCHANGED <<ratings, seq, now, txn, session>>

(* --------------------------- the aggregates ---------------------------- *)

RECURSIVE SumOver(_, _)
\* the sum of the `col` values of a set of rows ("total" for the three scores)
SumOver(rows, col) ==
    IF rows = {} THEN 0
    ELSE LET r == CHOOSE x \in rows : TRUE
             v == CASE col = "taste" -> r.taste
                    [] col = "presentation" -> r.presentation
                    [] col = "easy" -> r.easy
                    [] OTHER -> r.taste + r.presentation + r.easy
         IN v + SumOver(rows \ {r}, col)

\* round(num/den, 2), in hundredths: to the nearest, a tie to the even one
Round2(num, den) ==
    LET q == (100 * num) \div den
        rem == 100 * num - q * den
    IN IF 2 * rem < den THEN q
       ELSE IF 2 * rem > den THEN q + 1
       ELSE IF q % 2 = 0 THEN q ELSE q + 1

\* the orders of a set of n things: every sequence that lists each once
Orders(S) == {f \in [1..Cardinality(S) -> S] :
                \A i, j \in 1..Cardinality(S) : i # j => f[i] # f[j]}

GroupOf(table, e) == {r \in table : r.entrant_index = e}

\* ORDER BY avg_total ASC
BoardOrders_Ascending(table) ==
    LET es == {r.entrant_index : r \in table}
        tot(e) == SumOver(GroupOf(table, e), "total")
        n(e) == Cardinality(GroupOf(table, e))
    IN {f \in Orders(es) :
          \A i \in 1..(Cardinality(es) - 1) :
              tot(f[i]) * n(f[i + 1]) <= tot(f[i + 1]) * n(f[i])}

\* GROUP BY entrant_index ORDER BY avg_total DESC: the entrants that have
\* rows, by their exact average, equal averages in any order
BoardOrders(table) ==
    LET es == {r.entrant_index : r \in table}
        tot(e) == SumOver(GroupOf(table, e), "total")
        n(e) == Cardinality(GroupOf(table, e))
    IN {f \in Orders(es) :
          \A i \in 1..(Cardinality(es) - 1) :
              tot(f[i]) * n(f[i + 1]) >= tot(f[i + 1]) * n(f[i])}

\* one entry of the leaderboard; the averages are in hundredths
BoardEntry(table, e) ==
    LET g == GroupOf(table, e)
        n == Cardinality(g)
    IN [name |-> ENTRANTS(e), votes |-> n,
        avg_taste |-> Round2(SumOver(g, "taste"), n),
        avg_presentation |-> Round2(SumOver(g, "presentation"), n),
        avg_easy |-> Round2(SumOver(g, "easy"), n),
        avg_total |-> Round2(SumOver(g, "total"), n)]

\* GET /api/leaderboard
api_leaderboard ==
    /\ \E f \in BoardOrders(ratings) :
          resp' = [op |-> "leaderboard", status |-> 200, who |-> NULL, req |-> NULL,
                   out |-> [i \in 1..Len(f) |-> BoardEntry(ratings, f[i])]]
    /\ UNCHANGED <<ratings, seq, now, txn, session>>

\* the rows of the word query: WHERE one_word IS NOT NULL AND TRIM(one_word) != ''
\* GROUP BY entrant_index, LOWER(TRIM(one_word))
WordGroups(table) ==
    LET worded == {r \in table : r.one_word # NULL /\ SqlTrim(r.one_word) # <<>>}
    IN {[entrant_index |-> r.entrant_index, w |-> SqlLower(SqlTrim(r.one_word)),
         c |-> Cardinality({x \in worded : /\ x.entrant_index = r.entrant_index
                                           /\ SqlLower(SqlTrim(x.one_word))
                                              = SqlLower(SqlTrim(r.one_word))})] :
        r \in worded}

\* ORDER BY entrant_index ASC, c DESC, w ASC
WordBefore(a, b) ==
    \/ a.entrant_index < b.entrant_index
    \/ a.entrant_index = b.entrant_index /\ a.c > b.c
    \/ a.entrant_index = b.entrant_index /\ a.c = b.c /\ TextLess(a.w, b.w)

RECURSIVE WordRows(_)
WordRows(groups) ==
    IF groups = {} THEN <<>>
    ELSE LET first == CHOOSE g \in groups : \A o \in groups \ {g} : WordBefore(g, o)
         IN <<first>> \o WordRows(groups \ {first})

RECURSIVE WordLists(_, _)
\* out.setdefault(name, []).append({"word": w, "count": c}), row after row
WordLists(rows, out) ==
    IF rows = <<>> THEN out
    ELSE LET r == Head(rows)
             name == ENTRANTS(r.entrant_index)
             item == [word |-> r.w, count |-> r.c]
         IN WordLists(Tail(rows),
                      IF name \in DOMAIN out
                      THEN [out EXCEPT ![name] = Append(@, item)]
                      ELSE [k \in DOMAIN out \cup {name} |->
                              IF k = name THEN <<item>> ELSE out[k]])

\* GET /api/words
api_words ==
    /\ resp' = [op |-> "words", status |-> 200, who |-> NULL, req |-> NULL,
                out |-> WordLists(WordRows(WordGroups(ratings)), [k \in {} |-> <<>>])]
    /\ UNCHANGED <<ratings, seq, now, txn, session>>

(* ------------------------------ /export.csv ---------------------------- *)

RECURSIVE Join(_, _)
\* sep.join(parts)
Join(parts, sep) ==
    IF parts = <<>> THEN <<>>
    ELSE IF Len(parts) = 1 THEN parts[1]
    ELSE parts[1] \o sep \o Join(Tail(parts), sep)

RECURSIVE DoubleQuotes(_)
\* s.replace('"', '""')
DoubleQuotes(s) ==
    IF s = <<>> THEN <<>>
    ELSE (IF Head(s) = QUOTE THEN <<QUOTE, QUOTE>> ELSE <<Head(s)>>) \o DoubleQuotes(Tail(s))

\* q(s): None as the empty text
q(s) == <<QUOTE>> \o DoubleQuotes(IF s = NULL THEN <<>> ELSE s) \o <<QUOTE>>

\* the text CURRENT_TIMESTAMP stored at second t of the event hour
TimestampText(t) ==
    <<"2","0","2","5","-","0","9","-","0","7"," ","1","8",":","0","0",":">>
    \o (IF t < 10 THEN <<"0">> ELSE <<>>) \o Str(t)

CSV_HEADER ==
    << <<"i","d">>,
       <<"e","n","t","r","a","n","t","_","n","a","m","e">>,
       <<"t","a","s","t","e">>,
       <<"p","r","e","s","e","n","t","a","t","i","o","n">>,
       <<"e","a","s","y">>,
       <<"j","u","d","g","e">>,
       <<"d","e","v","i","c","e","_","i","d">>,
       <<"o","n","e","_","w","o","r","d">>,
       <<"c","r","e","a","t","e","d","_","a","t">> >>

\* what the source writes after every line: "\\n", a backslash and an n
LINE_END == <<BACKSLASH, "n">>

CsvLine(r) ==
    Join(<<Str(r.id), q(ENTRANTS(r.entrant_index)), Str(r.taste), Str(r.presentation),
           Str(r.easy), q(r.judge), q(r.device_id), q(r.one_word),
           TimestampText(r.created_at)>>, <<",">>)

\* ORDER BY created_at ASC: rows of one second in any order
ExportOrders(table) ==
    {f \in Orders(table) :
        \A i \in 1..(Cardinality(table) - 1) : f[i].created_at <= f[i + 1].created_at}

RECURSIVE CsvLines(_)
CsvLines(rows) ==
    IF rows = <<>> THEN <<>>
    ELSE CsvLine(Head(rows)) \o LINE_END \o CsvLines(Tail(rows))

\* the chunks generate() yields, one after another
CsvBody(rows) == Join(CSV_HEADER, <<",">>) \o LINE_END \o CsvLines(rows)

\* GET /export.csv
export_csv ==
    /\ \E f \in ExportOrders(ratings) :
          resp' = [op |-> "export", status |-> 200, who |-> NULL, req |-> f,
                   out |-> CsvBody(f)]
    /\ UNCHANGED <<ratings, seq, now, txn, session>>

(* ------------------------------- /admin -------------------------------- *)

\* a login that compares the password as typed
admin_login_Exact(s, password) ==
    LET pw == IF password = NULL THEN <<>> ELSE password
    IN /\ IF pw = ADMIN_PASSWORD
          THEN /\ session' = [session EXCEPT ![s] = TRUE]
               /\ resp' = [op |-> "login", status |-> 302, who |-> s, req |-> password,
                           out |-> ""]
          ELSE /\ session' = session
               /\ resp' = [op |-> "login", status |-> 200, who |-> s, req |-> password,
                           out |-> "Incorrect password"]
       /\ UNCHANGED <<ratings, seq, now, txn>>

\* POST /admin: the password form
admin_login(s, password) ==
    LET pw == Strip(IF password = NULL THEN <<>> ELSE password)
    IN /\ IF pw = ADMIN_PASSWORD
          THEN /\ session' = [session EXCEPT ![s] = TRUE]
               /\ resp' = [op |-> "login", status |-> 302, who |-> s, req |-> password,
                           out |-> ""]
          ELSE /\ session' = session
               /\ resp' = [op |-> "login", status |-> 200, who |-> s, req |-> password,
                           out |-> "Incorrect password"]
       /\ UNCHANGED <<ratings, seq, now, txn>>

\* ORDER BY entrant_index ASC, created_at ASC
DetailedOrders(table) ==
    {f \in Orders(table) :
        \A i \in 1..(Cardinality(table) - 1) :
            \/ f[i].entrant_index < f[i + 1].entrant_index
            \/ /\ f[i].entrant_index = f[i + 1].entrant_index
               /\ f[i].created_at <= f[i + 1].created_at}

DetailedEntry(r) ==
    [id |-> r.id, entrant |-> ENTRANTS(r.entrant_index), taste |-> r.taste,
     presentation |-> r.presentation, easy |-> r.easy,
     total |-> r.taste + r.presentation + r.easy,
     judge |-> IF r.judge = NULL THEN <<>> ELSE r.judge,
     device_id |-> IF r.device_id = NULL THEN <<>> ELSE r.device_id,
     one_word |-> IF r.one_word = NULL THEN <<>> ELSE r.one_word,
     created_at |-> r.created_at]

\* GET /admin: the login form, or the detailed results and the standings
admin_view(s) ==
    /\ IF ~session[s]
       THEN resp' = [op |-> "admin", status |-> 200, who |-> s, req |-> NULL,
                     out |-> "login"]
       ELSE \E f \in DetailedOrders(ratings), b \in BoardOrders(ratings) :
              resp' = [op |-> "admin", status |-> 200, who |-> s, req |-> NULL,
                       out |-> [detailed |-> [i \in 1..Len(f) |-> DetailedEntry(f[i])],
                                leaderboard |->
                                  [i \in 1..Len(b) |->
                                     [name |-> BoardEntry(ratings, b[i]).name,
                                      votes |-> BoardEntry(ratings, b[i]).votes,
                                      avg_total |-> BoardEntry(ratings, b[i]).avg_total]]]]
    /\ UNCHANGED <<ratings, seq, now, txn, session>>

\* a reset that does not look at the session
admin_reset_Ungated(s) ==
    /\ txn = NoTxn
    /\ txn' = [op |-> "reset", ratings |-> {}, seq |-> seq, who |-> s, req |-> NULL]
    /\ UNCHANGED <<ratings, seq, now, session, resp>>

\* POST /admin/reset up to db.execute("DELETE FROM ratings")
admin_reset(s) ==
    IF ~session[s]
    THEN /\ resp' = [op |-> "reset", status |-> 302, who |-> s, req |-> NULL,
                     out |-> "login"]
         /\ UNCHANGED <<ratings, seq, now, txn, session>>
    ELSE /\ txn = NoTxn
         /\ txn' = [op |-> "reset", ratings |-> {}, seq |-> seq, who |-> s, req |-> NULL]
         /\ UNCHANGED <<ratings, seq, now, session, resp>>

\* GET /admin/logout
admin_logout(s) ==
    /\ session' = [session EXCEPT ![s] = FALSE]
    /\ resp' = [op |-> "logout", status |-> 302, who |-> s, req |-> NULL, out |-> ""]
    /\ UNCHANGED <<ratings, seq, now, txn>>

(* ------------------- the store under concurrent writers ----------------- *)

Payload(e, t, p, z, j, w) ==
    [entrant_index |-> e, taste |-> t, presentation |-> p, easy |-> z,
     judge |-> j, one_word |-> w]

\* device_id cookies: none, and one browser's
Cookies == {NULL, <<"d", "1">>}

RateInputs ==
    {Payload(JInt(0), JInt(1), JInt(1), JInt(1), JNull, JNull),
     Payload(JInt(0), JInt(5), JInt(4), JInt(3), JStr(<<"A", "l">>), JStr(<<"G", "o", "o", "d">>)),
     Payload(JInt(N_ENTRANTS - 1), JInt(2), JInt(2), JInt(2), JNull, JStr(<<"b", "a", "d">>)),
     Payload(JInt(N_ENTRANTS), JInt(2), JInt(2), JInt(2), JNull, JNull)}

\* a submission from any browser; the id counter stays within MaxId
Submit == \E c \in Cookies, data \in RateInputs :
             api_rate(c, data) /\ txn'.seq <= MaxId

AdminSignsIn == admin_login("s1", ADMIN_PASSWORD)

AdminResets == admin_reset("s1")

Next == Submit \/ commit \/ Tick \/ AdminSignsIn \/ AdminResets

Spec == Init /\ [][Next]_vars

UniquePairs(table) ==
    \A r1, r2 \in table :
        (r1.entrant_index = r2.entrant_index /\ r1.device_id = r2.device_id) => r1 = r2

\* C1: in every reachable state the ratings table, committed or as the open
\* write transaction leaves it, holds at most one row per
\* (entrant_index, device_id) pair.
C1_OneRowPerPair == UniquePairs(ratings) /\ (txn.op = "rate" => UniquePairs(txn.ratings))

\* a submission for a pair that already has a row is in its transaction,
\* beside another pair's row
C1_Witness ==
    /\ txn.op = "rate"
    /\ Conflicting(ratings, txn.req.entrant_index.v, txn.who) # {}
    /\ Cardinality(ratings) = 2
    /\ Cardinality(txn.ratings) = 2

\* the text a submission gives for judge or one_word (the inputs of Spec
\* are already trimmed single words)
Submitted(x) == IF x.t = "null" THEN NULL ELSE x.s

\* C2: an accepted submission for a pair that already has a row overwrites
\* taste, presentation, easy, judge and one_word of that row with the
\* submitted values and changes nothing else: the row's id, device_id and
\* created_at and every other row stay, and the pair has exactly one row.
C2_UpsertOverwrites ==
    [][(txn.op = "rate" /\ txn' = NoTxn
        /\ Conflicting(ratings, txn.req.entrant_index.v, txn.who) # {})
       => \E old \in ratings :
            /\ old.entrant_index = txn.req.entrant_index.v
            /\ old.device_id = txn.who
            /\ ratings' = (ratings \ {old}) \cup
                 {[id |-> old.id, entrant_index |-> old.entrant_index,
                   device_id |-> old.device_id, created_at |-> old.created_at,
                   taste |-> txn.req.taste.v, presentation |-> txn.req.presentation.v,
                   easy |-> txn.req.easy.v, judge |-> Submitted(txn.req.judge),
                   one_word |-> Submitted(txn.req.one_word)]}
            /\ Cardinality(Conflicting(ratings', old.entrant_index, old.device_id)) = 1
            /\ resp'.status = 200]_vars

\* the first row was overwritten a second later, after another pair's row
\* was inserted: it shows the second submission's scores
C2_Witness ==
    /\ resp.op = "rate" /\ resp.status = 200 /\ resp.req.taste = JInt(5)
    /\ \E r, o \in ratings :
         /\ r.id = 1 /\ o.id = 2
         /\ r.entrant_index = 0 /\ r.device_id = resp.who
         /\ r.taste = 5 /\ r.judge = <<"A", "l">>
         /\ r.created_at = 0 /\ now = 1

(* --------------------------- a browser's own rating --------------------- *)

\* the entrant_index query argument: absent, in range, out of range, no number
InRangeArgs == {<<"0">>, <<"1", "3">>}

OutOfRangeArgs == {<<"-", "1">>, <<"1", "4">>}

MyRatingArgs == {NULL, <<"x">>} \cup InRangeArgs \cup OutOfRangeArgs

Lookup == \E c \in Cookies, arg \in MyRatingArgs : api_my_rating(c, arg)

NextMine == Submit \/ commit \/ Lookup

SpecMine == Init /\ [][NextMine]_vars

\* the number an in-range argument of the model writes
ArgEntrant(arg) == IF arg = <<"0">> THEN 0 ELSE N_ENTRANTS - 1

\* C5, as the spec states it: a lookup with an integer entrant_index outside
\* 0..N_ENTRANTS-1 fails with a validation error.
C5_OutOfRangeFails ==
    (resp.op = "my_rating" /\ resp.req \in OutOfRangeArgs) => resp.status = 400

\* C5, amended: a lookup with an integer entrant_index outside 0..N_ENTRANTS-1
\* (or with none given) succeeds with "no rating"; only an entrant_index that
\* is no integer fails; an in-range lookup returns the five fields of the row
\* of that (entrant, device), or "no rating" when there is none.
C5_Lookup ==
    resp.op = "my_rating" =>
        IF resp.req = <<"x">> THEN resp.status = 400
        ELSE /\ resp.status = 200
             /\ resp.out =
                  IF resp.req \in InRangeArgs
                  THEN {[taste |-> r.taste, presentation |-> r.presentation,
                         easy |-> r.easy, judge |-> r.judge, one_word |-> r.one_word] :
                        r \in {x \in ratings : /\ x.entrant_index = ArgEntrant(resp.req)
                                               /\ x.device_id = resp.who}}
                  ELSE {}

\* index 14 was looked up by a browser that has a stored rating, and the
\* answer is a successful "no rating"
C5_Witness ==
    /\ resp.op = "my_rating" /\ resp.req = <<"1", "4">>
    /\ resp.status = 200 /\ resp.out = {}
    /\ \E r \in ratings : r.device_id = resp.who

\* an in-range lookup found the browser's row
C5_WitnessFound ==
    /\ resp.op = "my_rating" /\ resp.req = <<"1", "3">> /\ resp.status = 200
    /\ \E o \in resp.out : o.one_word = <<"b", "a", "d">>

(* ------------------------- validation of a payload ---------------------- *)

\* the payload every validation input differs from in one field
BasePayload == Payload(JInt(0), JInt(1), JInt(1), JInt(1), JNull, JNull)

EntrantValues == {JInt(-1), JInt(0), JInt(N_ENTRANTS - 1), JInt(N_ENTRANTS)}

IntScores == {JInt(0), JInt(1), JInt(5), JInt(6)}

\* 3.7, 0.9, 5.9 and 6.2; true; "3" and "3.7"; a missing key
OtherScores == {JFloat(37), JFloat(9), JFloat(59), JFloat(62), JBool(TRUE),
                JStr(<<"3">>), JStr(<<"3", ".", "7">>), JNull}

TextValues == {JStr(<<" ", "O", "k", " ", "x", " ">>), JStr(<<" ">>), JInt(7)}

ValidateInputs ==
    {[BasePayload EXCEPT !.entrant_index = v] : v \in EntrantValues}
    \cup {[BasePayload EXCEPT !.taste = v] : v \in IntScores \cup OtherScores}
    \cup {[BasePayload EXCEPT !.presentation = v] : v \in IntScores \cup OtherScores}
    \cup {[BasePayload EXCEPT !.easy = v] : v \in IntScores \cup OtherScores}
    \cup {[BasePayload EXCEPT !.judge = v] : v \in TextValues}
    \cup {[BasePayload EXCEPT !.one_word = v] : v \in TextValues}

SubmitAny == \E data \in ValidateInputs :
                api_rate(<<"d", "1">>, data) /\ txn'.seq <= MaxId

NextValidate == SubmitAny \/ commit

SpecValidate == Init /\ [][NextValidate]_vars

\* the claim's inputs: integer entrant_index and scores, judge and one_word
\* a text or absent
IntegerInput(data) ==
    /\ \A x \in {data.entrant_index, data.taste, data.presentation, data.easy} : x.t = "int"
    /\ \A x \in {data.judge, data.one_word} : x.t \in {"str", "null"}

InRange(data) ==
    /\ data.entrant_index.v \in 0..(N_ENTRANTS - 1)
    /\ data.taste.v \in 1..5 /\ data.presentation.v \in 1..5 /\ data.easy.v \in 1..5

\* C3: for integer inputs a submission is accepted (its write transaction
\* opens, its row is stored at commit, the answer is 200) exactly when
\* 0 <= entrant_index < N_ENTRANTS and each score is in 1..5; otherwise it is
\* answered 400 and the table, the id counter and the open transaction are
\* as they were.
C3_IntegerValidation ==
    [][/\ (resp' # resp /\ resp'.op = "rate" /\ IntegerInput(resp'.req)) =>
            IF InRange(resp'.req)
            THEN resp'.status = 200 /\ txn.op = "rate" /\ txn.req = resp'.req
            ELSE resp'.status = 400 /\ ratings' = ratings /\ seq' = seq /\ txn' = txn
       /\ (txn.op # "rate" /\ txn'.op = "rate" /\ IntegerInput(txn'.req)) =>
            InRange(txn'.req) /\ ratings' = ratings
       /\ (txn.op = "rate" /\ txn' = NoTxn /\ IntegerInput(txn.req)) =>
            /\ resp'.status = 200
            /\ \E r \in ratings' :
                 /\ r.entrant_index = txn.req.entrant_index.v
                 /\ r.taste = txn.req.taste.v
                 /\ r.presentation = txn.req.presentation.v
                 /\ r.easy = txn.req.easy.v]_vars

\* the last entrant and a score of 5 were accepted, and a score of 6 has
\* just been refused with both rows still there
C3_Witness ==
    /\ resp.op = "rate" /\ resp.status = 400 /\ resp.req.easy = JInt(6)
    /\ \E r, o \in ratings :
         /\ r.entrant_index = N_ENTRANTS - 1
         /\ o.entrant_index = 0 /\ o.presentation = 5

\* C4: a submission whose taste, presentation or easy is not an integer is
\* refused: no write transaction is ever opened for one.
C4_NonIntegerRejected ==
    txn.op = "rate" =>
        \A x \in {txn.req.taste, txn.req.presentation, txn.req.easy} : x.t = "int"

(* ------------------------- the admin and the reset ---------------------- *)

AdminInputs ==
    {Payload(JInt(0), JInt(5), JInt(4), JInt(3), JStr(<<"A", "l">>), JStr(<<"G", "o", "o", "d">>)),
     Payload(JInt(N_ENTRANTS - 1), JInt(2), JInt(2), JInt(2), JNull, JStr(<<"b", "a", "d">>))}

\* no password field, the secret, the secret with a blank before or after
\* it, and two wrong ones
Passwords == {NULL, ADMIN_PASSWORD, <<" ">> \o ADMIN_PASSWORD, ADMIN_PASSWORD \o <<" ">>,
              <<"m", "a">>, <<"M">>}

SubmitVote == \E data \in AdminInputs :
                 api_rate(<<"d", "1">>, data) /\ txn'.seq <= MaxId

Login == \E s \in Sessions, pw \in Passwords : admin_login(s, pw)

Logout == \E s \in Sessions : admin_logout(s)

Reset == \E s \in Sessions : admin_reset(s)

View == \E s \in Sessions : admin_view(s)

NextAdmin == SubmitVote \/ commit \/ Login \/ Logout \/ Reset \/ View

SpecAdmin == Init /\ [][NextAdmin]_vars

\* every read of the table finds nothing
ReadsEmpty(table) ==
    /\ \A e \in 0..(N_ENTRANTS - 1), d \in {r.device_id : r \in ratings} \cup {<<"d", "1">>} :
          Conflicting(table, e, d) = {}
    /\ BoardOrders(table) = {<<>>}
    /\ WordRows(WordGroups(table)) = <<>>
    /\ DetailedOrders(table) = {<<>>}
    /\ \A f \in ExportOrders(table) : CsvLines(f) = <<>>

\* C6: a reset request of a session whose admin flag is set deletes every
\* row (every read then finds nothing); one of a session whose flag is not
\* set is sent to the login form and leaves the table and the open
\* transaction alone; and a session's flag changes only by that session's
\* own successful login (to set) and logout (to cleared).
C6_ResetGatedByFlag ==
    [][/\ (txn.op = "reset" /\ txn' = NoTxn) => ratings' = {} /\ ReadsEmpty(ratings')
       /\ (txn.op # "reset" /\ txn'.op = "reset") => session[txn'.who] /\ ratings' = ratings
       /\ (resp' # resp /\ resp'.op = "reset" /\ resp'.out = "login") =>
             ~session[resp'.who] /\ ratings' = ratings /\ txn' = txn
       /\ \A s \in Sessions :
             session'[s] =
                IF resp' # resp /\ resp'.who = s /\ resp'.op = "login" /\ resp'.status = 302
                THEN TRUE
                ELSE IF resp' # resp /\ resp'.who = s /\ resp'.op = "logout"
                THEN FALSE
                ELSE session[s]]_vars

\* two rows had been stored; the reset of the signed-in session s1 has
\* emptied the table, while s2 never signed in
C6_Witness ==
    /\ resp.op = "reset" /\ resp.who = "s1" /\ resp.out = ""
    /\ seq = 2 /\ ratings = {}
    /\ session["s1"] /\ ~session["s2"]

\* pw is t with blanks before and after it, and t has none at its ends
StrippedIs(pw, t) ==
    /\ pw # NULL
    /\ t = <<>> \/ (t[1] \notin Whitespace /\ t[Len(t)] \notin Whitespace)
    /\ \E i \in 1..(Len(pw) + 1) :
          /\ i + Len(t) - 1 <= Len(pw)
          /\ SubSeq(pw, i, i + Len(t) - 1) = t
          /\ \A k \in 1..Len(pw) : (k < i \/ k >= i + Len(t)) => pw[k] \in Whitespace

\* C7, as the spec states it: a login succeeds exactly when the submitted
\* password is string-equal to the secret, with no trimming.
C7_ExactEquality ==
    resp.op = "login" => (resp.status = 302 <=> resp.req = ADMIN_PASSWORD)

\* C7, amended: a login sets the session's flag exactly when the submitted
\* password with its leading and trailing whitespace removed is string-equal
\* to the secret; a refused attempt leaves every flag as it was.
C7_StrippedEquality ==
    [][resp'.op = "login" =>
          IF StrippedIs(resp'.req, ADMIN_PASSWORD)
          THEN resp'.status = 302 /\ session' = [session EXCEPT ![resp'.who] = TRUE]
          ELSE resp'.status = 200 /\ session' = session]_vars

\* s2 signed in with a blank before the secret
C7_Witness ==
    /\ resp.op = "login" /\ resp.who = "s2" /\ resp.req = <<" ">> \o ADMIN_PASSWORD
    /\ resp.status = 302 /\ session["s2"] /\ ~session["s1"]

(* ------------------------------ the standings --------------------------- *)

\* the device_id of the k-th browser
Device(k) == <<"d">> \o Str(k)

Devices == {Device(k) : k \in 1..MaxDevices}

Absent == <<0, 0, 0>>

\* what one browser gave an entrant: nothing, or taste, presentation, easy
\* (totals 10, 12, 14 for entrant 0; 6, 8 for entrant 1; 12 for the last)
ScoreChoices(e) ==
    IF e = 0 THEN {Absent, <<3, 3, 4>>, <<4, 4, 4>>, <<5, 5, 4>>}
    ELSE IF e = 1 THEN {Absent, <<2, 2, 2>>, <<3, 3, 2>>}
    ELSE {Absent, <<5, 4, 3>>}

\* the table in which browser d gave entrant e the scores votes[e][d]; the
\* ids are those of some order of insertion
VotesTable(a, b, c) ==
    {Row(k, 0, a[Device(k)][1], a[Device(k)][2], a[Device(k)][3], NULL, Device(k), NULL, 0) :
        k \in {i \in 1..MaxDevices : a[Device(i)] # Absent}}
    \cup {Row(MaxDevices + k, 1, b[Device(k)][1], b[Device(k)][2], b[Device(k)][3],
              NULL, Device(k), NULL, 0) :
        k \in {i \in 1..MaxDevices : b[Device(i)] # Absent}}
    \cup (IF c = Absent THEN {}
          ELSE {Row(2 * MaxDevices + 1, N_ENTRANTS - 1, c[1], c[2], c[3],
                    NULL, Device(1), NULL, 0)})

InitBoard ==
    /\ \E a \in [Devices -> ScoreChoices(0)], b \in [Devices -> ScoreChoices(1)],
          c \in ScoreChoices(N_ENTRANTS - 1) :
          ratings = VotesTable(a, b, c)
    /\ seq = 2 * MaxDevices + 1
    /\ now = 0
    /\ txn = NoTxn
    /\ session = [s \in Sessions |-> FALSE]
    /\ resp = NoResp

NextBoard == api_leaderboard

SpecBoard == InitBoard /\ [][NextBoard]_vars

\* the rows of the entrant of that name
RowsNamed(name) == {r \in ratings : ENTRANTS(r.entrant_index) = name}

\* the entries of the leaderboard answer are the entrants that have rows,
\* each once, with its number of rows, by non-increasing avg_total
BoardShape(out) ==
    /\ Len(out) = Cardinality({r.entrant_index : r \in ratings})
    /\ {out[i].name : i \in 1..Len(out)} = {ENTRANTS(r.entrant_index) : r \in ratings}
    /\ \A i \in 1..Len(out) : out[i].votes = Cardinality(RowsNamed(out[i].name))
    /\ \A i, j \in 1..Len(out) : i < j => out[i].avg_total >= out[j].avg_total

\* C8, as the spec states it: avg_total is the mean of
\* taste+presentation+easy over the entrant's rows (here in hundredths).
C8_ExactMean ==
    resp.op = "leaderboard" =>
        /\ BoardShape(resp.out)
        /\ \A i \in 1..Len(resp.out) :
              resp.out[i].avg_total * resp.out[i].votes
                 = 100 * SumOver(RowsNamed(resp.out[i].name), "total")

\* C8, amended: the leaderboard has exactly one entry per entrant with at
\* least one row and none for the others; votes is the number of the
\* entrant's rows; avg_total is the mean of taste+presentation+easy over
\* them rounded to two decimal places (the hundredth nearest to the mean);
\* the entries are in non-increasing order of avg_total.
C8_RoundedMean ==
    resp.op = "leaderboard" =>
        /\ BoardShape(resp.out)
        /\ \A i \in 1..Len(resp.out) :
              LET d == resp.out[i].avg_total * resp.out[i].votes
                         - 100 * SumOver(RowsNamed(resp.out[i].name), "total")
              IN 2 * d <= resp.out[i].votes /\ -2 * d <= resp.out[i].votes

\* totals 10, 10, 12 for Javier and 6, 8 for Lindsay: Javier with 10.67
\* before Lindsay with 7.00, and nobody else
C8_Witness ==
    /\ resp.op = "leaderboard" /\ Len(resp.out) = 2
    /\ resp.out[1].name = ENTRANTS(0) /\ resp.out[1].votes = 3
    /\ resp.out[1].avg_total = 1067
    /\ resp.out[2].name = ENTRANTS(1) /\ resp.out[2].votes = 2
    /\ resp.out[2].avg_total = 700

\* the example of the spec: totals 10, 12, 14 and 6, 8 give 12.00 before 7.00
C8_WitnessExample ==
    /\ resp.op = "leaderboard" /\ Len(resp.out) = 2
    /\ {r.taste + r.presentation + r.easy : r \in GroupOf(ratings, 0)} = {10, 12, 14}
    /\ {r.taste + r.presentation + r.easy : r \in GroupOf(ratings, 1)} = {6, 8}
    /\ resp.out[1].name = ENTRANTS(0) /\ resp.out[1].avg_total = 1200
    /\ resp.out[2].name = ENTRANTS(1) /\ resp.out[2].avg_total = 700

(* ------------------------------ the one words --------------------------- *)

NoVote == <<"-">>

\* what one browser gave entrant 0 as its one word: no vote at all, a vote
\* without a word, or a word as sanitize_one_word stores it
WordChoices == {NoVote, NULL, <<"G", "o", "o", "d">>, <<"g", "o", "o", "d">>,
                <<"B", "a", "d">>, <<"E_ACUTE", "t">>, <<"e_acute", "t">>}

LastChoices == {NoVote, NULL, <<"b", "a", "d">>}

WordsTable(a, c) ==
    {Row(k, 0, 3, 3, 3, NULL, Device(k), a[Device(k)], 0) :
        k \in {i \in 1..MaxDevices : a[Device(i)] # NoVote}}
    \cup (IF c = NoVote THEN {}
          ELSE {Row(MaxDevices + 1, N_ENTRANTS - 1, 3, 3, 3, NULL, Device(1), c, 0)})

InitWords ==
    /\ \E a \in [Devices -> WordChoices], c \in LastChoices : ratings = WordsTable(a, c)
    /\ seq = MaxDevices + 1
    /\ now = 0
    /\ txn = NoTxn
    /\ session = [s \in Sessions |-> FALSE]
    /\ resp = NoResp

NextWords == api_words

SpecWords == InitWords /\ [][NextWords]_vars

\* the two letters are one letter in its two cases
CasePair(x, y) ==
    \/ \E i \in 1..26 : {x, y} = {UPPER[i], LOWERCASE[i]}
    \/ {x, y} = {"E_ACUTE", "e_acute"}

AsciiCasePair(x, y) == \E i \in 1..26 : {x, y} = {UPPER[i], LOWERCASE[i]}

IsUpper(x) == x = "E_ACUTE" \/ \E i \in 1..26 : x = UPPER[i]

\* the two words differ at most in the case of letters
SameIgnoringCase(a, b) ==
    /\ Len(a) = Len(b)
    /\ \A i \in 1..Len(a) : a[i] = b[i] \/ CasePair(a[i], b[i])

SameIgnoringAsciiCase(a, b) ==
    /\ Len(a) = Len(b)
    /\ \A i \in 1..Len(a) : a[i] = b[i] \/ AsciiCasePair(a[i], b[i])

\* the rows of the entrant of that name that carry a word
WordedRows(name) == {r \in RowsNamed(name) : r.one_word # NULL /\ r.one_word # <<>>}

\* the list is by count descending, then word ascending, no word twice
WordOrder(list) ==
    \A i, j \in 1..Len(list) :
        i < j => \/ list[i].count > list[j].count
                 \/ list[i].count = list[j].count /\ TextLess(list[i].word, list[j].word)

\* C9: the word counts map each entrant that has a non-empty one_word, and
\* no other, to the list of its distinct lowercased words, each with the
\* number of the entrant's rows whose one_word is that word up to letter
\* case, by count descending and then word ascending.
C9_WordCounts ==
    resp.op = "words" =>
        /\ DOMAIN resp.out = {ENTRANTS(r.entrant_index) :
                                r \in {x \in ratings : x.one_word # NULL}}
        /\ \A name \in DOMAIN resp.out :
              LET list == resp.out[name]
              IN /\ list # <<>>
                 /\ WordOrder(list)
                 /\ \A i \in 1..Len(list) :
                       /\ \A k \in 1..Len(list[i].word) : ~IsUpper(list[i].word[k])
                       /\ list[i].count = Cardinality({r \in WordedRows(name) :
                                             SameIgnoringCase(r.one_word, list[i].word)})
                 /\ \A r \in WordedRows(name) :
                       \E i \in 1..Len(list) : SameIgnoringCase(r.one_word, list[i].word)

\* the same with letter case taken as the case of the 26 ASCII letters only,
\* which is what the code computes
C9_AsciiWordCounts ==
    resp.op = "words" =>
        /\ DOMAIN resp.out = {ENTRANTS(r.entrant_index) :
                                r \in {x \in ratings : x.one_word # NULL}}
        /\ \A name \in DOMAIN resp.out :
              LET list == resp.out[name]
              IN /\ list # <<>>
                 /\ WordOrder(list)
                 /\ \A i \in 1..Len(list) :
                       /\ \A k \in 1..Len(list[i].word) :
                             \A u \in 1..26 : list[i].word[k] # UPPER[u]
                       /\ list[i].count = Cardinality({r \in WordedRows(name) :
                                             SameIgnoringAsciiCase(r.one_word, list[i].word)})
                 /\ \A r \in WordedRows(name) :
                       \E i \in 1..Len(list) : SameIgnoringAsciiCase(r.one_word, list[i].word)

\* "Good", "good" and "Bad" give good: 2 before bad: 1
C9_AsciiExample ==
    /\ resp.op = "words"
    /\ {r.one_word : r \in ratings} = {<<"G", "o", "o", "d">>, <<"g", "o", "o", "d">>,
                                        <<"B", "a", "d">>}
    /\ DOMAIN resp.out = {ENTRANTS(0)}
    /\ resp.out[ENTRANTS(0)] = <<[word |-> <<"g", "o", "o", "d">>, count |-> 2],
                                 [word |-> <<"b", "a", "d">>, count |-> 1]>>

(* ------------------------------- the export ----------------------------- *)

CsvInputs ==
    {Payload(JInt(0), JInt(1), JInt(2), JInt(3), JStr(<<"O", QUOTE, "B">>), JStr(<<"H", "i">>)),
     Payload(JInt(N_ENTRANTS - 1), JInt(5), JInt(5), JInt(5), JNull, JNull)}

CsvCookies == {NULL, <<"d", QUOTE>>}

SubmitRow == \E c \in CsvCookies, data \in CsvInputs :
                api_rate(c, data) /\ txn'.seq <= MaxId

NextCsv == SubmitRow \/ commit \/ Tick \/ export_csv

SpecCsv == Init /\ [][NextCsv]_vars

RECURSIVE LinesLF(_)
\* every record followed by a line feed
LinesLF(rows) ==
    IF rows = <<>> THEN <<>>
    ELSE CsvLine(Head(rows)) \o <<LF>> \o LinesLF(Tail(rows))

\* C10: the export is the header row and then one record per stored rating
\* in ascending created_at order, every row (the header too) ended by a line
\* feed, the text fields quoted with doubled quotes, id and scores bare.
C10_CsvRows ==
    resp.op = "export" =>
        /\ Len(resp.req) = Cardinality(ratings)
        /\ {resp.req[i] : i \in 1..Len(resp.req)} = ratings
        /\ \A i, j \in 1..Len(resp.req) :
              i < j => resp.req[i].created_at <= resp.req[j].created_at
        /\ resp.out = Join(CSV_HEADER, <<",">>) \o <<LF>> \o LinesLF(resp.req)

\* what the code does write: the same rows, each ended by a backslash and
\* an n, so the whole export is a single line
C10_BackslashN ==
    resp.op = "export" =>
        /\ Len(resp.req) = Cardinality(ratings)
        /\ {resp.req[i] : i \in 1..Len(resp.req)} = ratings
        /\ \A i, j \in 1..Len(resp.req) :
              i < j => resp.req[i].created_at <= resp.req[j].created_at
        /\ \A k \in 1..Len(resp.out) : resp.out[k] # LF
        /\ SubSeq(resp.out, Len(resp.out) - 1, Len(resp.out)) = <<BACKSLASH, "n">>

====
